---------------------------- MODULE Spec2Model ----------------------------
(***************************************************************************)
(* A model of src/main.py: the Pydantic vision agent for Ollama.           *)
(*                                                                         *)
(* main() checks that the image file exists, reads it, builds a            *)
(* MultiModalMessage and awaits VisionAgent.process_message, which builds  *)
(* an OpenAI-style chat request, POSTs it once and turns the outcome into  *)
(* an AssistantResponse.  process_message is also modelled as called       *)
(* directly with an arbitrary MultiModalMessage (entry = "call").          *)
(*                                                                         *)
(* Python strings are TLA+ strings, bytes are sequences of 0..255, lists   *)
(* are sequences, dicts and pydantic objects are records.  An optional     *)
(* value (a local not yet assigned, None) is <<>> and <<v>> when set.      *)
(***************************************************************************)
EXTENDS Integers, Sequences, FiniteSets, TLC

(***************************************************************************)
(* Bounds of the model.                                                    *)
(***************************************************************************)
\* longest MultiModalMessage.content list drawn for a direct call
MaxItems == 3
\* longest image byte string drawn (file content or ImageContent.data)
MaxDataLen == 3

(***************************************************************************)
(* Program constants.                                                      *)
(***************************************************************************)
HTTP_OK == 200
DefaultFormat == "jpeg"
ModelName == "gemma3:4b"
ImagePath == "GettyImages.jpg"
MainPrompt == "Can you describe the content of this image?"

(***************************************************************************)
(* Pydantic models.                                                        *)
(***************************************************************************)
TextContent(data) == [type |-> "text", data |-> data]

ImageContentOf(data, format) == [type |-> "image", data |-> data, format |-> format]

\* ImageContent(data=...) with the format left to its default
ImageContent(data) == ImageContentOf(data, DefaultFormat)

AssistantResponse(content) ==
    [class |-> "AssistantResponse", role |-> "assistant", content |-> content]

(***************************************************************************)
(* Inputs drawn by the model.                                              *)
(***************************************************************************)
SampleBytes == <<77, 97, 110, 255, 0, 16>>

\* the byte strings an image may hold, the empty one included
ImageDatas == { SubSeq(SampleBytes, 1, n) : n \in 0..MaxDataLen }

Formats == {"jpeg", "png"}

Texts == {"describe", "now"}

ContentItems ==
    { TextContent(t) : t \in Texts }
        \cup { ImageContentOf(d, f) : d \in ImageDatas, f \in Formats }

RECURSIVE SeqsUpTo(_, _)
SeqsUpTo(S, n) ==
    IF n = 0 THEN {<<>>}
    ELSE LET shorter == SeqsUpTo(S, n - 1)
         IN  shorter \cup { Append(s, x) : s \in shorter, x \in S }

\* MultiModalMessage.content values handed to a direct call
Contents == SeqsUpTo(ContentItems, MaxItems)

(***************************************************************************)
(* Outcomes of the transport.                                              *)
(***************************************************************************)
EmptyObject == [k \in {} |-> 0]

Replies == {"a red square", "", "Error: API error (status 500): server error"}

WellFormed(r) == [choices |-> <<[message |-> [content |-> r]]>>]

MalformedBodies ==
    { EmptyObject,
      [choices |-> <<>>],
      [choices |-> <<EmptyObject>>],
      [choices |-> <<[message |-> EmptyObject]>>] }

ErrorStatuses == {404, 500}

ErrorTexts == {"server error", ""}

Responses ==
    { [status |-> s, text |-> t] : s \in ErrorStatuses, t \in ErrorTexts }
        \cup { [status |-> HTTP_OK, json |-> b] :
                 b \in MalformedBodies \cup { WellFormed(r) : r \in Replies } }

\* what session.post raises when the service cannot be reached
TransportErrors ==
    { [type |-> "ClientConnectorError",
       text |-> "Cannot connect to host localhost:11434"],
      [type |-> "TimeoutError", text |-> ""] }

(***************************************************************************)
(* Pure functions.                                                         *)
(***************************************************************************)
B64Alphabet ==
    << "A","B","C","D","E","F","G","H","I","J","K","L","M",
       "N","O","P","Q","R","S","T","U","V","W","X","Y","Z",
       "a","b","c","d","e","f","g","h","i","j","k","l","m",
       "n","o","p","q","r","s","t","u","v","w","x","y","z",
       "0","1","2","3","4","5","6","7","8","9","+","/" >>

B64Char(i) == B64Alphabet[i + 1]

\* base64.b64encode(data).decode('utf-8')
RECURSIVE b64encode(_)
b64encode(data) ==
    IF Len(data) = 0 THEN ""
    ELSE IF Len(data) = 1 THEN
        B64Char(data[1] \div 4) \o B64Char((data[1] % 4) * 16) \o "=="
    ELSE IF Len(data) = 2 THEN
        B64Char(data[1] \div 4)
            \o B64Char((data[1] % 4) * 16 + data[2] \div 16)
            \o B64Char((data[2] % 16) * 4) \o "="
    ELSE
        B64Char(data[1] \div 4)
            \o B64Char((data[1] % 4) * 16 + data[2] \div 16)
            \o B64Char((data[2] % 16) * 4 + data[3] \div 64)
            \o B64Char(data[3] % 64)
            \o b64encode(SubSeq(data, 4, Len(data)))

\* " ".join(parts)
RECURSIVE Join(_)
Join(parts) ==
    IF Len(parts) = 0 THEN ""
    ELSE IF Len(parts) = 1 THEN parts[1]
    ELSE parts[1] \o " " \o Join(Tail(parts))

\* [item for item in content if item.type == t]
RECURSIVE ItemsOfType(_, _)
ItemsOfType(content, t) ==
    IF Len(content) = 0 THEN <<>>
    ELSE IF Head(content).type = t
         THEN <<Head(content)>> \o ItemsOfType(Tail(content), t)
         ELSE ItemsOfType(Tail(content), t)

\* [item.data for item in items]
DataOf(items) == [i \in 1..Len(items) |-> items[i].data]

\* the f-string of line 81
DataUri(item) == "data:image/jpeg;base64," \o b64encode(item.data)

\* one element of image_contents
ImageElement(item) == [type |-> "image_url", image_url |-> [url |-> DataUri(item)]]

\* the loop of lines 76-82
EncodeImages(items) == [i \in 1..Len(items) |-> ImageElement(items[i])]

\* UserContent with the text element appended instead of put first
UserContentTextLast(text, items) ==
    EncodeImages(items) \o <<[type |-> "text", text |-> text]>>

\* the content list of the user message
UserContent(text, items) == <<[type |-> "text", text |-> text]>> \o EncodeImages(items)

\* the payload of lines 85-93
BuildPayload(text, items) ==
    [model |-> ModelName,
     messages |-> << [role |-> "user", content |-> UserContent(text, items)] >>]

\* ApiErrorText without the response body
ApiErrorTextNoBody(code, text) == "API error (status " \o ToString(code) \o ")"

\* the exception message of line 104
ApiErrorText(code, text) == "API error (status " \o ToString(code) \o "): " \o text

\* ExtractContent with the reply clipped to its first ten characters
ExtractContentClipped(json) ==
    IF "choices" \notin DOMAIN json
        THEN [ok |-> FALSE, exc |-> [type |-> "KeyError", text |-> "'choices'"]]
    ELSE IF Len(json.choices) = 0
        THEN [ok |-> FALSE,
              exc |-> [type |-> "IndexError", text |-> "list index out of range"]]
    ELSE IF "message" \notin DOMAIN json.choices[1]
        THEN [ok |-> FALSE, exc |-> [type |-> "KeyError", text |-> "'message'"]]
    ELSE IF "content" \notin DOMAIN json.choices[1].message
        THEN [ok |-> FALSE, exc |-> [type |-> "KeyError", text |-> "'content'"]]
    ELSE LET c == json.choices[1].message.content
         IN  [ok |-> TRUE,
              value |-> IF Len(c) > 10 THEN SubSeq(c, 1, 10) ELSE c]

\* result["choices"][0]["message"]["content"]: the value, or what the
\* subscripting raises
ExtractContent(json) ==
    IF "choices" \notin DOMAIN json
        THEN [ok |-> FALSE, exc |-> [type |-> "KeyError", text |-> "'choices'"]]
    ELSE IF Len(json.choices) = 0
        THEN [ok |-> FALSE,
              exc |-> [type |-> "IndexError", text |-> "list index out of range"]]
    ELSE IF "message" \notin DOMAIN json.choices[1]
        THEN [ok |-> FALSE, exc |-> [type |-> "KeyError", text |-> "'message'"]]
    ELSE IF "content" \notin DOMAIN json.choices[1].message
        THEN [ok |-> FALSE, exc |-> [type |-> "KeyError", text |-> "'content'"]]
    ELSE [ok |-> TRUE, value |-> json.choices[1].message.content]

\* Caught as "except aiohttp.ClientError" would have it
CaughtClientErrorOnly(e) == e.type \in {"ClientConnectorError"}

\* the classes "except Exception" catches: every exception raised here
Caught(e) ==
    e.type \in {"Exception", "KeyError", "IndexError",
                "ClientConnectorError", "TimeoutError"}

\* ErrorResponse without the "Error: " prefix
ErrorResponseBare(e) == AssistantResponse(e.text)

\* ErrorResponse built from line 110's error_message
ErrorResponseLogged(e) ==
    AssistantResponse("Error processing image with Ollama: " \o e.text)

\* the response built in the except clause, line 112
ErrorResponse(e) == AssistantResponse("Error: " \o e.text)

(***************************************************************************)
(* State.                                                                  *)
(***************************************************************************)
VARIABLES
    entry,        \* "main": the script is run; "call": process_message is called
    fileKind,     \* what ImagePath names: "absent", "file" or "dir"
    fileBytes,    \* the file's content when it is a file
    pc,           \* the position of the run
    fileOpen,     \* the handle f of line 146 is open
    image_data,   \* main's image_data
    message,      \* the MultiModalMessage handed to process_message
    prompt,       \* process_message's prompt
    image_items,  \* process_message's image_items
    payload,      \* process_message's payload
    sessionOpen,  \* the aiohttp.ClientSession of line 96 is open
    respOpen,     \* the response of line 97 (its connection) is open
    inFlight,     \* POSTs sent and not yet answered or failed
    posts,        \* POSTs issued so far
    resp,         \* the transport's answer: status and body
    exc,          \* the exception raised in this run, if any
    retval,       \* the value process_message is returning
    response,     \* what the caller of process_message received
    stdout        \* the lines printed so far

vars ==
    << entry, fileKind, fileBytes, pc, fileOpen, image_data, message, prompt,
       image_items, payload, sessionOpen, respOpen, inFlight, posts, resp,
       exc, retval, response, stdout >>

fsVars == << entry, fileKind, fileBytes >>

mainVars == << fileOpen, image_data >>

agentVars == << prompt, image_items, payload >>

netVars == << sessionOpen, respOpen, inFlight, posts, resp >>

\* print(line, ...): the lines are appended to standard output
Printed(lines) == stdout' = stdout \o lines

Fresh ==
    /\ fileOpen = FALSE
    /\ image_data = <<>>
    /\ prompt = <<>>
    /\ image_items = <<>>
    /\ payload = <<>>
    /\ sessionOpen = FALSE
    /\ respOpen = FALSE
    /\ inFlight = 0
    /\ posts = 0
    /\ resp = <<>>
    /\ exc = <<>>
    /\ retval = <<>>
    /\ response = <<>>
    /\ stdout = <<>>

\* python main.py, with ImagePath absent, a file, or a directory
InitMain ==
    /\ entry = "main"
    /\ \/ fileKind = "file" /\ fileBytes \in ImageDatas
       \/ fileKind \in {"absent", "dir"} /\ fileBytes = <<>>
    /\ pc = "main"
    /\ message = <<>>
    /\ Fresh

\* await agent.process_message(message), for any valid message
InitCall ==
    /\ entry = "call"
    /\ fileKind = "absent"
    /\ fileBytes = <<>>
    /\ pc = "extract"
    /\ \E c \in Contents : message = << [content |-> c, source |-> "user"] >>
    /\ Fresh

Init == InitMain \/ InitCall

(***************************************************************************)
(* main()                                                                  *)
(***************************************************************************)
Banner ==
    << "=== Pydantic Vision Agent for Ollama ===",
       "Using structured data validation with Pydantic",
       "Prerequisites:",
       "1. Make sure Ollama is running: ollama serve",
       "2. Make sure you have the model: ollama pull gemma3:4b" >>

NotFoundLine == "Error: Image file " \o ImagePath \o " not found."

\* ImageExists with the check left out
ImageExistsUnchecked == TRUE

\* os.path.exists(image_path)
ImageExists == fileKind # "absent"

\* lines 115-143: the file is missing, main reports it and returns.  The two
\* lines that print the working directory and its listing are left out.
ImageMissing ==
    /\ pc = "main"
    /\ ~ImageExists
    /\ Printed(Banner \o <<NotFoundLine, "Available files:">>)
    /\ pc' = "done"
    /\ UNCHANGED << fsVars, mainVars, message, agentVars, netVars, exc,
                    retval, response >>

\* lines 115-138: the path exists
ImageFound ==
    /\ pc = "main"
    /\ ImageExists
    /\ Printed(Banner)
    /\ pc' = "open"
    /\ UNCHANGED << fsVars, mainVars, message, agentVars, netVars, exc,
                    retval, response >>

\* line 146: open(image_path, "rb")
OpenImage ==
    /\ pc = "open"
    /\ fileKind = "file"
    /\ fileOpen' = TRUE
    /\ pc' = "read"
    /\ UNCHANGED << fsVars, image_data, message, agentVars, netVars, exc,
                    retval, response, stdout >>

\* line 146 on a path that is no readable file: open raises, nothing in main
\* catches it
OpenImageFails ==
    /\ pc = "open"
    /\ fileKind # "file"
    /\ exc' = << [type |-> IF fileKind = "dir" THEN "IsADirectoryError"
                           ELSE "FileNotFoundError",
                  text |-> ImagePath] >>
    /\ pc' = "crashed"
    /\ UNCHANGED << fsVars, mainVars, message, agentVars, netVars, retval,
                    response, stdout >>

\* line 147: f.read()
ReadImage ==
    /\ pc = "read"
    /\ image_data' = <<fileBytes>>
    /\ pc' = "close"
    /\ UNCHANGED << fsVars, fileOpen, message, agentVars, netVars, exc,
                    retval, response, stdout >>

\* the end of the with block of line 146
CloseImage ==
    /\ pc = "close"
    /\ fileOpen' = FALSE
    /\ pc' = "message"
    /\ UNCHANGED << fsVars, image_data, message, agentVars, netVars, exc,
                    retval, response, stdout >>

\* MainContent with an empty image left out of the message
MainContentSkipEmpty(data) ==
    IF Len(data) = 0 THEN << TextContent(MainPrompt) >>
    ELSE << TextContent(MainPrompt), ImageContent(data) >>

\* the content list of lines 151-154
MainContent(data) == << TextContent(MainPrompt), ImageContent(data) >>

\* lines 150-159: the message is built and process_message is called
CreateMessage ==
    /\ pc = "message"
    /\ message' = << [content |-> MainContent(image_data[1]), source |-> "user"] >>
    /\ pc' = "extract"
    /\ UNCHANGED << fsVars, mainVars, agentVars, netVars, exc, retval,
                    response, stdout >>

\* lines 160-161
ShowResponse ==
    /\ pc = "show"
    /\ Printed(<< "", "Response from Ollama:", response[1].content >>)
    /\ pc' = "done"
    /\ UNCHANGED << fsVars, mainVars, message, agentVars, netVars, exc,
                    retval, response >>

(***************************************************************************)
(* VisionAgent.process_message                                             *)
(***************************************************************************)
\* line 64
PromptOf(content) == Join(DataOf(ItemsOfType(content, "text")))

\* line 65
ImagesOf(content) == ItemsOfType(content, "image")

\* lines 64-68
Extract ==
    /\ pc = "extract"
    /\ prompt' = << PromptOf(message[1].content) >>
    /\ image_items' = ImagesOf(message[1].content)
    /\ Printed(<< "Processing request with "
                     \o ToString(Len(ImagesOf(message[1].content)))
                     \o " image(s)",
                  "Prompt: " \o PromptOf(message[1].content) >>)
    /\ pc' = "prepare"
    /\ UNCHANGED << fsVars, mainVars, message, payload, netVars, exc, retval,
                    response >>

\* lines 70-93
Prepare ==
    /\ pc = "prepare"
    /\ payload' = << BuildPayload(prompt[1], image_items) >>
    /\ Printed(<< "", "Sending request to Ollama..." >>)
    /\ pc' = "session"
    /\ UNCHANGED << fsVars, mainVars, message, prompt, image_items, netVars,
                    exc, retval, response >>

\* line 96: async with aiohttp.ClientSession() as session
OpenSession ==
    /\ pc = "session"
    /\ sessionOpen' = TRUE
    /\ pc' = "post"
    /\ UNCHANGED << fsVars, mainVars, message, agentVars, respOpen, inFlight,
                    posts, resp, exc, retval, response, stdout >>

\* lines 97-101: session.post(...) sends the request
Post ==
    /\ pc = "post"
    /\ posts' = posts + 1
    /\ inFlight' = inFlight + 1
    /\ pc' = "await"
    /\ UNCHANGED << fsVars, mainVars, message, agentVars, sessionOpen,
                    respOpen, resp, exc, retval, response, stdout >>

\* line 97: the service cannot be reached, session.post raises
PostFails ==
    /\ pc = "await"
    /\ \E e \in TransportErrors : exc' = <<e>>
    /\ inFlight' = inFlight - 1
    /\ pc' = "exit_session"
    /\ UNCHANGED << fsVars, mainVars, message, agentVars, sessionOpen,
                    respOpen, posts, resp, retval, response, stdout >>

\* line 97: the service answers, the response is entered
PostAnswered ==
    /\ pc = "await"
    /\ \E r \in Responses : resp' = <<r>>
    /\ inFlight' = inFlight - 1
    /\ respOpen' = TRUE
    /\ pc' = "handle"
    /\ UNCHANGED << fsVars, mainVars, message, agentVars, sessionOpen, posts,
                    exc, retval, response, stdout >>

\* lines 102-104: any status other than 200 raises
HandleStatus ==
    /\ pc = "handle"
    /\ resp[1].status # HTTP_OK
    /\ exc' = << [type |-> "Exception",
                  text |-> ApiErrorText(resp[1].status, resp[1].text)] >>
    /\ pc' = "exit_response"
    /\ UNCHANGED << fsVars, mainVars, message, agentVars, netVars, retval,
                    response, stdout >>

\* lines 106-107: the body is decoded; the return value is built, or the
\* subscripting raises
HandleBody ==
    /\ pc = "handle"
    /\ resp[1].status = HTTP_OK
    /\ LET got == ExtractContent(resp[1].json)
       IN  IF got.ok
           THEN retval' = << AssistantResponse(got.value) >> /\ exc' = exc
           ELSE exc' = << got.exc >> /\ retval' = retval
    /\ pc' = "exit_response"
    /\ UNCHANGED << fsVars, mainVars, message, agentVars, netVars, response,
                    stdout >>

\* the end of the async with of line 97, on return and on raise alike
ExitResponse ==
    /\ pc = "exit_response"
    /\ respOpen' = FALSE
    /\ pc' = "exit_session"
    /\ UNCHANGED << fsVars, mainVars, message, agentVars, sessionOpen,
                    inFlight, posts, resp, exc, retval, response, stdout >>

\* ExitSession with the session closed by a close() call the raise skips
ExitSessionOnSuccessOnly ==
    /\ pc = "exit_session"
    /\ sessionOpen' = (exc # <<>>)
    /\ pc' = IF exc = <<>> THEN "return" ELSE "except"
    /\ UNCHANGED << fsVars, mainVars, message, agentVars, respOpen, inFlight,
                    posts, resp, exc, retval, response, stdout >>

\* the end of the async with of line 96, on return and on raise alike
ExitSession ==
    /\ pc = "exit_session"
    /\ sessionOpen' = FALSE
    /\ pc' = IF exc = <<>> THEN "return" ELSE "except"
    /\ UNCHANGED << fsVars, mainVars, message, agentVars, respOpen, inFlight,
                    posts, resp, exc, retval, response, stdout >>

\* lines 109-112: the except clause
Except ==
    /\ pc = "except"
    /\ IF Caught(exc[1])
       THEN /\ retval' = << ErrorResponse(exc[1]) >>
            /\ Printed(<< "Error processing image with Ollama: " \o exc[1].text >>)
            /\ pc' = "return"
       ELSE /\ pc' = "crashed"
            /\ UNCHANGED << retval, stdout >>
    /\ UNCHANGED << fsVars, mainVars, message, agentVars, netVars, exc,
                    response >>

\* process_message returns: to main (line 159) or to the direct caller
Return ==
    /\ pc = "return"
    /\ response' = retval
    /\ pc' = IF entry = "main" THEN "show" ELSE "done"
    /\ UNCHANGED << fsVars, mainVars, message, agentVars, netVars, exc,
                    retval, stdout >>

Next ==
    \/ ImageMissing
    \/ ImageFound
    \/ OpenImage
    \/ OpenImageFails
    \/ ReadImage
    \/ CloseImage
    \/ CreateMessage
    \/ ShowResponse
    \/ Extract
    \/ Prepare
    \/ OpenSession
    \/ Post
    \/ PostFails
    \/ PostAnswered
    \/ HandleStatus
    \/ HandleBody
    \/ ExitResponse
    \/ ExitSession
    \/ Except
    \/ Return

Spec == Init /\ [][Next]_vars

(***************************************************************************)
(* Vocabulary of the properties.                                           *)
(***************************************************************************)
IsText(item) == item.type = "text"

IsImage(item) == item.type = "image"

\* the input's text items and images, in input order
InputTexts == SelectSeq(message[1].content, IsText)

InputImages == SelectSeq(message[1].content, IsImage)

\* the content list of the request's user message
RequestContent == payload[1].messages[1].content

\* the URL of the i-th image element of the request
RequestUrl(i) == RequestContent[i + 1].image_url.url

\* process_message has handed its result to its caller
Returned == pc \in {"show", "done"} /\ prompt # <<>>

\* the run is over
Completed == pc \in {"done", "crashed"}

HasLine(line) == \E i \in 1..Len(stdout) : stdout[i] = line

StartsWith(s, prefix) ==
    Len(s) >= Len(prefix) /\ SubSeq(s, 1, Len(prefix)) = prefix

\* why a finished run failed, or "Success"
Cause ==
    IF entry = "main" /\ fileKind = "absent" THEN "ImageNotFound"
    ELSE IF resp = <<>> THEN "TransportError"
    ELSE IF resp[1].status # HTTP_OK THEN "ApiError"
    ELSE IF resp[1].json \in MalformedBodies THEN "MalformedResponse"
    ELSE "Success"

\* the results a successful run hands to its caller
SuccessResults == { << AssistantResponse(r) >> : r \in Replies }

\* str(e) of what decoding a malformed body raises
MalformedText(json) ==
    IF json = EmptyObject THEN "'choices'"
    ELSE IF json = [choices |-> <<>>] THEN "list index out of range"
    ELSE IF json = [choices |-> <<EmptyObject>>] THEN "'message'"
    ELSE "'content'"

(***************************************************************************)
(* C1.  The request has exactly one message, of role "user", whose content *)
(* list has one element more than the input has images: first the one text *)
(* element, holding the prompt (the input's text items joined by single    *)
(* spaces: the text item itself when there is one), then one image element *)
(* per input image, in input order, whatever the order of the input items. *)
(***************************************************************************)
C1_TextFirstThenImagesInOrder ==
    payload # <<>> =>
        /\ Len(payload[1].messages) = 1
        /\ payload[1].messages[1].role = "user"
        /\ Len(RequestContent) = Len(InputImages) + 1
        /\ RequestContent[1].type = "text"
        /\ RequestContent[1].text = Join(DataOf(InputTexts))
        /\ Len(InputTexts) = 1 => RequestContent[1].text = InputTexts[1].data
        /\ Len(InputTexts) = 0 => RequestContent[1].text = ""
        /\ \A i \in 1..Len(InputImages) :
              /\ RequestContent[i + 1].type = "image_url"
              /\ \E f \in Formats :
                    RequestUrl(i) = "data:image/" \o f \o ";base64,"
                                        \o b64encode(InputImages[i].data)

\* two different images around a text item have reached the request
C1_Witness ==
    /\ payload # <<>>
    /\ Len(message[1].content) = 3
    /\ IsImage(message[1].content[1])
    /\ IsText(message[1].content[2])
    /\ IsImage(message[1].content[3])
    /\ message[1].content[1].data # message[1].content[3].data

(***************************************************************************)
(* C2.  Every image element of the request carries the data URI            *)
(* data:image/S;base64,<payload> where S is the declared format of the     *)
(* image it encodes.                                                       *)
(***************************************************************************)
C2_UriCarriesDeclaredFormat ==
    payload # <<>> =>
        \A i \in 1..Len(InputImages) :
            RequestUrl(i) = "data:image/" \o InputImages[i].format \o ";base64,"
                                \o b64encode(InputImages[i].data)

(***************************************************************************)
(* C3.  As claimed: after an answer with a status other than 200 the       *)
(* caller holds an ApiError carrying the status code and the raw body, and *)
(* exactly one POST was issued.                                            *)
(***************************************************************************)
C3_YieldsApiError ==
    (pc = "done" /\ resp # <<>> /\ resp[1].status # HTTP_OK) =>
        /\ posts = 1
        /\ response # <<>>
        /\ response[1].class = "ApiError"
        /\ "status" \in DOMAIN response[1]
        /\ response[1].status = resp[1].status
        /\ "body" \in DOMAIN response[1]
        /\ response[1].body = resp[1].text

(***************************************************************************)
(* C3, amended.  After an answer with a status S other than 200 and body B *)
(* exactly one POST has been issued, none is in flight, no exception       *)
(* escapes, and the caller receives the AssistantResponse whose content is *)
(* "Error: API error (status S): B".                                       *)
(***************************************************************************)
C3_ApiErrorAsText ==
    (resp # <<>> /\ resp[1].status # HTTP_OK) =>
        /\ posts = 1
        /\ inFlight = 0
        /\ pc # "crashed"
        /\ Returned =>
              response = << AssistantResponse(
                  "Error: API error (status " \o ToString(resp[1].status)
                      \o "): " \o resp[1].text) >>

\* the run that got 500 "server error" is over
C3_Witness ==
    /\ pc = "done"
    /\ resp # <<>>
    /\ resp[1].status = 500
    /\ resp[1].text = "server error"
    /\ posts = 1

(***************************************************************************)
(* C4.  As claimed: after a 200 answer whose body lacks choices, has an    *)
(* empty choices list or lacks message.content, the caller holds a         *)
(* MalformedResponse, and no exception escaped.                            *)
(***************************************************************************)
C4_YieldsMalformedResponse ==
    (Completed /\ resp # <<>> /\ resp[1].status = HTTP_OK
        /\ resp[1].json \in MalformedBodies) =>
        /\ pc = "done"
        /\ response # <<>>
        /\ response[1].class = "MalformedResponse"

(***************************************************************************)
(* C4, amended.  After such an answer no exception escapes, and the caller *)
(* receives an AssistantResponse whose content is "Error: " followed by    *)
(* the text of the KeyError or IndexError the decoding raised.             *)
(***************************************************************************)
C4_MalformedAsErrorText ==
    (resp # <<>> /\ resp[1].status = HTTP_OK /\ resp[1].json \in MalformedBodies) =>
        /\ pc # "crashed"
        /\ Returned =>
              response = << AssistantResponse(
                  "Error: " \o MalformedText(resp[1].json)) >>

\* the run that got 200 with an empty choices list is over
C4_Witness ==
    /\ pc = "done"
    /\ resp # <<>>
    /\ resp[1].status = HTTP_OK
    /\ resp[1].json = [choices |-> <<>>]

(***************************************************************************)
(* C5.  When the image path does not exist, main never opens a session,    *)
(* issues no POST, builds neither a message nor a request, and ends by     *)
(* returning after it has printed that the image file was not found.       *)
(***************************************************************************)
C5_MissingImageNoRequest ==
    (entry = "main" /\ fileKind = "absent") =>
        /\ posts = 0
        /\ inFlight = 0
        /\ ~sessionOpen
        /\ ~fileOpen
        /\ image_data = <<>>
        /\ message = <<>>
        /\ payload = <<>>
        /\ pc \in {"main", "done"}
        /\ pc = "done" =>
              /\ HasLine("Error: Image file GettyImages.jpg not found.")
              /\ response = <<>>

\* main has returned on a missing image
C5_Witness == entry = "main" /\ fileKind = "absent" /\ pc = "done"

(***************************************************************************)
(* C6.  When the transport answers 200 with a body whose                   *)
(* choices[0].message.content is R, the caller receives R unchanged as the *)
(* response's content, and main prints R as its last line.                 *)
(***************************************************************************)
C6_ReplyUnchanged ==
    (Returned /\ resp # <<>> /\ resp[1].status = HTTP_OK
        /\ resp[1].json \notin MalformedBodies) =>
        /\ response # <<>>
        /\ response[1].content = resp[1].json.choices[1].message.content
        /\ (entry = "main" /\ pc = "done") =>
              stdout[Len(stdout)] = resp[1].json.choices[1].message.content

\* main has printed the reply to an existing image file
C6_Witness ==
    /\ entry = "main"
    /\ fileKind = "file"
    /\ Len(fileBytes) > 0
    /\ pc = "done"
    /\ resp # <<>>
    /\ resp[1].status = HTTP_OK
    /\ resp[1].json = WellFormed("a red square")

(***************************************************************************)
(* C7.  As claimed, in its weakest reading: a run that failed never hands  *)
(* its caller a result that a successful run hands its caller too.         *)
(***************************************************************************)
C7_FailureDistinctFromSuccess ==
    (pc = "done" /\ Cause # "Success") => response \notin SuccessResults

(***************************************************************************)
(* C7, amended.  Every failure inside process_message (transport error,    *)
(* non-200 status, malformed body) reaches the caller as an                *)
(* AssistantResponse of role "assistant" whose content starts with         *)
(* "Error: ", the shape of a successful reply; a missing image yields no   *)
(* result, only the printed line.                                          *)
(***************************************************************************)
C7_FailuresShareReplyShape ==
    pc = "done" =>
        /\ Cause = "ImageNotFound" =>
              /\ response = <<>>
              /\ HasLine("Error: Image file GettyImages.jpg not found.")
        /\ Cause \in {"TransportError", "ApiError", "MalformedResponse"} =>
              /\ response # <<>>
              /\ DOMAIN response[1] = {"class", "role", "content"}
              /\ response[1].class = "AssistantResponse"
              /\ response[1].role = "assistant"
              /\ StartsWith(response[1].content, "Error: ")

\* a failed run has handed its caller what a successful run would
C7_Witness ==
    /\ pc = "done"
    /\ Cause = "ApiError"
    /\ response \in SuccessResults

(***************************************************************************)
(* C8.  At most one request is in flight, and once process_message has     *)
(* returned or the run is over, on every path, the file handle, the        *)
(* response and the session are closed and nothing is in flight.           *)
(***************************************************************************)
C8_OneInFlightAllReleased ==
    /\ inFlight \in {0, 1}
    /\ respOpen => sessionOpen
    /\ inFlight = 1 => sessionOpen
    /\ (sessionOpen \/ posts > 0) => ~fileOpen
    /\ pc \in {"except", "return", "show", "done", "crashed"} =>
          /\ ~fileOpen
          /\ ~sessionOpen
          /\ ~respOpen
          /\ inFlight = 0

\* main is over after a failed request, the file having been read
C8_Witness ==
    /\ entry = "main"
    /\ pc = "done"
    /\ image_data # <<>>
    /\ posts = 1
    /\ exc # <<>>

(***************************************************************************)
(* C9.  As claimed: main builds a message and reaches the transport only   *)
(* for a file that exists and is not empty.                                *)
(***************************************************************************)
C9_NonEmptyConfirmed ==
    (entry = "main" /\ (message # <<>> \/ payload # <<>> \/ posts > 0)) =>
        /\ fileKind = "file"
        /\ Len(fileBytes) > 0

(***************************************************************************)
(* C9, amended.  main confirms only that the path exists before it opens   *)
(* the file: a missing file never reaches request construction or the      *)
(* transport, while the bytes of an existing file, empty or not, are put   *)
(* in the message as read; an empty file is sent as an image element with  *)
(* an empty base64 payload.                                                *)
(***************************************************************************)
C9_ExistenceOnlyConfirmed ==
    entry = "main" =>
        /\ pc = "open" => fileKind # "absent"
        /\ (message # <<>> \/ payload # <<>> \/ posts > 0) => fileKind = "file"
        /\ message # <<>> =>
              message[1].content =
                  << [type |-> "text", data |-> MainPrompt],
                     [type |-> "image", data |-> fileBytes, format |-> "jpeg"] >>
        /\ (payload # <<>> /\ fileBytes = <<>>) =>
              /\ Len(RequestContent) = 2
              /\ RequestUrl(1) = "data:image/jpeg;base64,"

\* the request for an existing empty file has been sent
C9_Witness ==
    /\ entry = "main"
    /\ fileKind = "file"
    /\ fileBytes = <<>>
    /\ posts = 1

(***************************************************************************)
(* C10.  process_message issues at most one POST and never lets an         *)
(* exception escape: it returns an AssistantResponse on every outcome, and *)
(* on every failure the content is "Error: " followed by the text of the   *)
(* exception raised.                                                       *)
(***************************************************************************)
C10_AlwaysReturnsResponse ==
    /\ posts <= 1
    /\ pc = "crashed" => prompt = <<>>
    /\ Returned =>
          /\ posts = 1
          /\ response # <<>>
          /\ response[1].class = "AssistantResponse"
          /\ response[1].role = "assistant"
          /\ Cause = "Success" <=> exc = <<>>
          /\ exc # <<>> => response[1].content = "Error: " \o exc[1].text
          /\ Cause = "TransportError" =>
                \E e \in TransportErrors : exc[1] = e

\* a direct call has returned after the POST timed out
C10_Witness ==
    /\ entry = "call"
    /\ pc = "done"
    /\ Cause = "TransportError"
    /\ exc[1].type = "TimeoutError"
    /\ response # <<>>

=============================================================================
